---- MODULE Spec2Model ----
(* A model of the STV counting function calculate() of stv.py: the ballots  *)
(* (objects with a preference list and an exact rational value), the        *)
(* allocation of ballots to the remaining candidates, and the round loop.   *)
EXTENDS Integers, Sequences, FiniteSets, TLC

VARIABLES seats, no_defaulting, tie_strategy, ballots, valid_ballots, spoiled,
          quota, allocation, elected, round, scores, reached_quota, pc, err,
          output, run, first

vars == <<seats, no_defaulting, tie_strategy, ballots, valid_ballots, spoiled,
          quota, allocation, elected, round, scores, reached_quota, pc, err,
          output, run, first>>

(***************************************************************************)
(* Bounds of the model.                                                    *)
(***************************************************************************)
MaxSeats == 4
MaxBallots == 3
MaxRank == 3
MaxRounds == 12
MaxLiveBallots == 2
MaxLiveRank == 2
MaxTieBallots == 5

(***************************************************************************)
(* Candidates.  The candidate list is the CSV header; its order is the     *)
(* insertion order of the allocation dict.  Candidates are strings, which  *)
(* sorted() compares lexicographically.                                    *)
(***************************************************************************)
candidates == <<"B", "A", "C">>

CandSet == {candidates[i] : i \in 1..Len(candidates)}

StrOrder == <<"A", "B", "C">>

StrRank(c) == CHOOSE i \in 1..Len(StrOrder) : StrOrder[i] = c

CandIndex(c) == CHOOSE i \in 1..Len(candidates) : candidates[i] = c

(***************************************************************************)
(* Exact rationals (fractions.Fraction): <<numerator, denominator>> in     *)
(* lowest terms with a positive denominator.                               *)
(***************************************************************************)
(* These are functions, so that their arguments are values.                *)
GCD[a \in Nat, b \in Nat] == IF b = 0 THEN a ELSE GCD[b, a % b]

Abs(n) == IF n < 0 THEN -n ELSE n

Rational == Int \X (Nat \ {0})

Fraction[n \in Int, d \in Nat \ {0}] ==
    <<n \div GCD[Abs(n), d], d \div GCD[Abs(n), d]>>

FInt(n) == <<n, 1>>

FAdd[x \in Rational, y \in Rational] ==
    Fraction[x[1] * y[2] + y[1] * x[2], x[2] * y[2]]

FSub[x \in Rational, y \in Rational] ==
    Fraction[x[1] * y[2] - y[1] * x[2], x[2] * y[2]]

FMul[x \in Rational, y \in Rational] == Fraction[x[1] * y[1], x[2] * y[2]]

FDivInt[x \in Rational, q \in Nat \ {0}] == Fraction[x[1], x[2] * q]

FGe[x \in Rational, y \in Rational] == x[1] * y[2] >= y[1] * x[2]

FLe(x, y) == FGe[y, x]

FLt(x, y) == ~FGe[x, y]

(***************************************************************************)
(* Sequence helpers.                                                       *)
(***************************************************************************)
Range(s) == {s[i] : i \in 1..Len(s)}

RECURSIVE Filter(_, _)
Filter(s, S) ==
    IF s = <<>> THEN <<>>
    ELSE IF Head(s) \in S THEN <<Head(s)>> \o Filter(Tail(s), S)
    ELSE Filter(Tail(s), S)

(* The keys of the allocation dict in iteration (insertion) order. *)
Keys(alloc) == Filter(candidates, DOMAIN alloc)

(***************************************************************************)
(* Ballot                                                                  *)
(***************************************************************************)
NewBallot(ch) == [choices |-> ch, value |-> FInt(1)]

(* Ballot.from_row: a row holds one cell per candidate, 0 for a blank cell *)
(* and k >= 1 for the rank k; a rank used twice gives the empty ballot.    *)
RowLen(row) == IF Len(row) < Len(candidates) THEN Len(row) ELSE Len(candidates)

RowRanks(row) == {row[i] : i \in {j \in 1..RowLen(row) : row[j] # 0}}

RowHasDuplicateRank(row) ==
    \E i, j \in 1..RowLen(row) : i < j /\ row[i] # 0 /\ row[i] = row[j]

RECURSIVE RowSorted(_, _)
RowSorted(row, ks) ==
    IF ks = {} THEN <<>>
    ELSE LET k == CHOOSE x \in ks : \A y \in ks : x <= y
             i == CHOOSE j \in 1..RowLen(row) : row[j] = k
         IN  <<candidates[i]>> \o RowSorted(row, ks \ {k})

from_row(row) ==
    IF RowHasDuplicateRank(row) THEN <<>> ELSE RowSorted(row, RowRanks(row))

is_valid_nonempty(ch) == ch # <<>>

is_valid(ch) ==
    /\ ch # <<>>
    /\ Len(ch) = Cardinality(Range(ch))

RECURSIVE calc_score(_, _)
calc_score(bs, bl) ==
    IF bs = <<>> THEN FInt(0)
    ELSE FAdd[bl[Head(bs)].value, calc_score(Tail(bs), bl)]

PopChoicesOnce(ch, keys) ==
    IF ch = <<>> THEN <<>>
    ELSE IF Head(ch) \in keys THEN ch
    ELSE Tail(ch)

(* The while loop of Ballot.transfer: pop the leading choices that are not *)
(* keys of the allocation.                                                 *)
RECURSIVE PopChoices(_, _)
PopChoices(ch, keys) ==
    IF ch = <<>> THEN <<>>
    ELSE IF Head(ch) \in keys THEN ch
    ELSE PopChoices(Tail(ch), keys)

(* Ballot.transfer of ballot b: the state is [ballots, allocation].  The    *)
(* state handed in is evaluated once and then used as a value.             *)
transfer(b, st0) ==
    LET Apply(st) ==
            LET ch == PopChoices(st.ballots[b].choices, DOMAIN st.allocation)
                bl == [st.ballots EXCEPT ![b].choices = ch]
            IN  IF ch = <<>>
                THEN [ballots |-> bl, allocation |-> st.allocation]
                ELSE [ballots |-> bl,
                      allocation |->
                          [st.allocation EXCEPT ![ch[1]] = Append(@, b)]]
    IN  CHOOSE r \in {Apply(st) : st \in {st0}} : TRUE

RemoveKeepsKey(alloc, c) == [alloc EXCEPT ![c] = <<>>]

Remove(alloc, c) == [k \in DOMAIN alloc \ {c} |-> alloc[k]]

RedistributeNothing(bs, st) == st

(* for ballot in bs: ballot.transfer(allocation) *)
RECURSIVE Redistribute(_, _)
Redistribute(bs, st) ==
    IF bs = <<>> THEN st ELSE Redistribute(Tail(bs), transfer(Head(bs), st))

(* for ballot in bs: ballot.value *= multiplier; ballot.transfer(allocation) *)
RECURSIVE SurplusTransfer(_, _, _)
SurplusTransfer(bs, multiplier, st) ==
    IF bs = <<>> THEN st
    ELSE SurplusTransfer(Tail(bs), multiplier,
             transfer(Head(bs),
                 [st EXCEPT !.ballots[Head(bs)].value = FMul[@, multiplier]]))

(***************************************************************************)
(* TieStrategy.break_tie: the set of values the call can return.           *)
(***************************************************************************)
Sorted0(tied) ==
    CHOOSE c \in Range(tied) : \A d \in Range(tied) : StrRank(c) <= StrRank(d)

break_tie(strategy, tied) ==
    IF strategy = "RANDOM" THEN Range(tied)
    ELSE IF strategy = "FIRST_IN_ORDER" THEN {Sorted0(tied)}
    ELSE {"None"}

(***************************************************************************)
(* The prologue of calculate (lines 133-145).                              *)
(***************************************************************************)
RECURSIVE SelectIds(_, _, _)
SelectIds(i, bl, c) ==
    IF i > Len(bl) THEN <<>>
    ELSE IF is_valid(bl[i].choices) /\ (c = "" \/ bl[i].choices[1] = c)
         THEN <<i>> \o SelectIds(i + 1, bl, c)
         ELSE SelectIds(i + 1, bl, c)

ValidBallots(bl) == SelectIds(1, bl, "")

QuotaHare(v, s) == (v \div s) + 1

QuotaNoIncrement(v, s) == v \div (s + 1)

Quota(v, s) == (v \div (s + 1)) + 1

InitialAllocation(bl) == [c \in CandSet |-> SelectIds(1, bl, c)]

NoScores == [c \in {} |-> FInt(0)]

NoError == [kind |-> "none", elected |-> <<>>, tied |-> <<>>,
            electing |-> FALSE, unfilled |-> 0]

UnbreakableTieErrorSwapped(el, tied, electing) ==
    [kind |-> "UnbreakableTie", elected |-> tied, tied |-> el,
     electing |-> electing, unfilled |-> 0]

UnbreakableTieError(el, tied, electing) ==
    [kind |-> "UnbreakableTie", elected |-> el, tied |-> tied,
     electing |-> electing, unfilled |-> 0]

UnfilledSeatsErrorAllSeats(el, unfilled) ==
    [kind |-> "UnfilledSeats", elected |-> el, tied |-> <<>>,
     electing |-> FALSE, unfilled |-> unfilled + Len(el)]

UnfilledSeatsError(el, unfilled) ==
    [kind |-> "UnfilledSeats", elected |-> el, tied |-> <<>>,
     electing |-> FALSE, unfilled |-> unfilled]

(***************************************************************************)
(* Inputs.  Ballots come from CSV rows through from_row, or are built      *)
(* directly (which is the only way to get a repeated candidate).           *)
(***************************************************************************)
Rows == [1..Len(candidates) -> 0..MaxRank]

DirectChoices == {<<"A", "A">>, <<"B", "C", "B">>}

BallotInputs == {from_row(r) : r \in Rows} \cup DirectChoices

RECURSIVE ChoiceCode(_)
ChoiceCode(ch) ==
    IF ch = <<>> THEN 0 ELSE CandIndex(Head(ch)) + 4 * ChoiceCode(Tail(ch))

(* Ballot lists up to the order of the ballots, which no result depends on *)
BallotLists ==
    {bs \in UNION {[1..n -> BallotInputs] : n \in 0..MaxBallots} :
        \A i \in 1..(Len(bs) - 1) : ChoiceCode(bs[i]) <= ChoiceCode(bs[i + 1])}

(* The inputs of the runs whose termination is checked: ballots read from  *)
(* CSV rows, as the command line reads them.                               *)
LiveBallotInputs ==
    {from_row(r) : r \in [1..Len(candidates) -> 0..MaxLiveRank]}

LiveBallotLists ==
    {bs \in UNION {[1..n -> LiveBallotInputs] : n \in 0..MaxLiveBallots} :
        \A i \in 1..(Len(bs) - 1) : ChoiceCode(bs[i]) <= ChoiceCode(bs[i + 1])}

(* The inputs of the runs in which more candidates reach the quota than    *)
(* seats are open: many ballots of few kinds.                              *)
TieBallotInputs == {<<"A", "B">>, <<"A", "C">>, <<"B">>, <<"C">>}

TieBallotLists ==
    {bs \in UNION {[1..n -> TieBallotInputs] : n \in 0..MaxTieBallots} :
        \A i \in 1..(Len(bs) - 1) : ChoiceCode(bs[i]) <= ChoiceCode(bs[i + 1])}

TieStrategies == {"NONE", "RANDOM", "FIRST_IN_ORDER"}

(* Before calculate is called: no arguments yet, nothing computed. *)
Init ==
    /\ seats = 0
    /\ no_defaulting = FALSE
    /\ tie_strategy = "NONE"
    /\ ballots = <<>>
    /\ valid_ballots = <<>>
    /\ spoiled = 0
    /\ quota = 0
    /\ allocation = [c \in {} |-> <<>>]
    /\ elected = <<>>
    /\ round = 1
    /\ scores = NoScores
    /\ reached_quota = <<>>
    /\ pc = "idle"
    /\ err = NoError
    /\ output = <<>>
    /\ run = 0
    /\ first = [quota |-> 0, elected |-> <<>>]

(* The prologue of calculate(s, candidates, bl, nd, ts), lines 133-145. *)
Prologue(s, bl, nd, ts) ==
    /\ seats' = s
    /\ no_defaulting' = nd
    /\ tie_strategy' = ts
    /\ ballots' = bl
    /\ valid_ballots' = ValidBallots(bl)
    /\ spoiled' = Len(bl) - Len(ValidBallots(bl))
    /\ quota' = Quota(Len(ValidBallots(bl)), s)
    /\ allocation' = InitialAllocation(bl)
    /\ elected' = <<>>
    /\ round' = 1
    /\ scores' = NoScores
    /\ reached_quota' = <<>>
    /\ pc' = "loop"
    /\ output' = <<>>
    /\ run' = run + 1
    /\ UNCHANGED <<err, first>>

(* calculate is called with fresh ballots *)
Call ==
    /\ pc = "idle"
    /\ \E s \in 1..MaxSeats, nd \in BOOLEAN, ts \in TieStrategies,
          bs \in BallotLists :
          Prologue(s, [i \in 1..Len(bs) |-> NewBallot(bs[i])], nd, ts)

(* calculate is called with the tie strategies the command line and the    *)
(* default offer *)
LiveCall ==
    /\ pc = "idle"
    /\ \E s \in 1..MaxSeats, nd \in BOOLEAN,
          ts \in {"NONE", "FIRST_IN_ORDER"}, bs \in LiveBallotLists :
          Prologue(s, [i \in 1..Len(bs) |-> NewBallot(bs[i])], nd, ts)

(* calculate is called with many ballots of few kinds *)
TieCall ==
    /\ pc = "idle"
    /\ \E s \in 1..MaxSeats, nd \in BOOLEAN, ts \in TieStrategies,
          bs \in TieBallotLists :
          Prologue(s, [i \in 1..Len(bs) |-> NewBallot(bs[i])], nd, ts)

(***************************************************************************)
(* The round loop (lines 147-206).                                         *)
(***************************************************************************)
Inputs == <<seats, no_defaulting, tie_strategy>>

Scores(alloc, bl) == [c \in DOMAIN alloc |-> calc_score(alloc[c], bl)]

ReachedQuotaStrict(sc, q) ==
    Filter(candidates, {c \in DOMAIN sc : ~FGe[FInt(q), sc[c]]})

ReachedQuota(sc, q) ==
    Filter(candidates, {c \in DOMAIN sc : FGe[sc[c], FInt(q)]})

MaxScore(sc) ==
    CHOOSE m \in {sc[c] : c \in DOMAIN sc} : \A c \in DOMAIN sc : FGe[m, sc[c]]

MinScore(sc) ==
    CHOOSE m \in {sc[c] : c \in DOMAIN sc} : \A c \in DOMAIN sc : FLe(m, sc[c])

LowestScoring(sc) ==
    Filter(candidates, {c \in DOMAIN sc : sc[c] = MinScore(sc)})

ToElect == seats - Len(elected)

InRound ==
    /\ pc = "loop"
    /\ Len(elected) < seats
    /\ round < MaxRounds

Event(ev, who) == [ev |-> ev, who |-> who]

RECURSIVE Events(_, _)
Events(ev, cs) ==
    IF cs = <<>> THEN <<>>
    ELSE <<Event(ev, <<Head(cs)>>)>> \o Events(ev, Tail(cs))

Surplus(score, q) == FSub[score, FInt(q)]

Multiplier(surplus, q) == FDivInt[surplus, q]

DefaultConditionOffByOne(n, to_elect) == n <= to_elect + 1

DefaultCondition(n, to_elect) == n <= to_elect

(* line 147: the loop condition fails, calculate returns elected *)
Return ==
    /\ pc = "loop"
    /\ Len(elected) >= seats
    /\ pc' = "done"
    /\ first' = IF run = 1 THEN [quota |-> quota, elected |-> elected] ELSE first
    /\ UNCHANGED <<Inputs, ballots, valid_ballots, spoiled, quota, allocation,
                   elected, round, scores, reached_quota, err, output, run>>

(* lines 149-152 *)
RaiseNoCandidates ==
    /\ InRound
    /\ DOMAIN allocation = {}
    /\ pc' = "error"
    /\ err' = UnfilledSeatsError(elected, seats - Len(elected))
    /\ UNCHANGED <<Inputs, ballots, valid_ballots, spoiled, quota, allocation,
                   elected, round, scores, reached_quota, output, run, first>>

(* lines 156-166: more reached quota than seats are open, tie unbroken *)
ElectingTieError ==
    /\ InRound
    /\ DOMAIN allocation # {}
    /\ LET sc == Scores(allocation, ballots)
           rq == ReachedQuota(sc, quota)
       IN  /\ rq # <<>>
           /\ Len(rq) > ToElect
           /\ "None" \in break_tie(tie_strategy, rq)
           /\ scores' = sc
           /\ output' = Append(output, Event("Tie", rq))
           /\ err' = UnbreakableTieError(elected, rq, TRUE)
    /\ pc' = "error"
    /\ UNCHANGED <<Inputs, ballots, valid_ballots, spoiled, quota, allocation,
                   elected, round, reached_quota, run, first>>

(* lines 156-167: the round elects; reached_quota is fixed for the round *)
BeginElect ==
    /\ InRound
    /\ DOMAIN allocation # {}
    /\ LET sc == Scores(allocation, ballots)
           rq == ReachedQuota(sc, quota)
       IN  /\ rq # <<>>
           /\ scores' = sc
           /\ IF Len(rq) > ToElect
              THEN \E w \in break_tie(tie_strategy, rq) :
                      /\ w # "None"
                      /\ reached_quota' = <<w>>
                      /\ output' = Append(output, Event("Tie", rq))
              ELSE /\ reached_quota' = rq
                   /\ output' = output
    /\ pc' = "elect"
    /\ UNCHANGED <<Inputs, ballots, valid_ballots, spoiled, quota, allocation,
                   elected, round, err, run, first>>

(* lines 169-181, one iteration; after the last one, line 206 *)
ElectOne ==
    /\ pc = "elect"
    /\ reached_quota # <<>>
    /\ LET candidate == Head(reached_quota)
           surplus == Surplus(scores[candidate], quota)
           st == IF surplus = FInt(0)
                 THEN [ballots |-> ballots,
                       allocation |-> Remove(allocation, candidate)]
                 ELSE SurplusTransfer(allocation[candidate],
                          Multiplier(surplus, quota),
                          [ballots |-> ballots,
                           allocation |-> Remove(allocation, candidate)])
       IN  /\ elected' = Append(elected, candidate)
           /\ output' = Append(output, Event("Elected", <<candidate>>))
           /\ ballots' = st.ballots
           /\ allocation' = st.allocation
    /\ reached_quota' = Tail(reached_quota)
    /\ IF Tail(reached_quota) = <<>>
       THEN pc' = "loop" /\ round' = round + 1
       ELSE pc' = "elect" /\ round' = round
    /\ UNCHANGED <<Inputs, valid_ballots, spoiled, quota, scores, err, run,
                   first>>

(* lines 182-187 *)
NoDefaultingError ==
    /\ InRound
    /\ DOMAIN allocation # {}
    /\ LET sc == Scores(allocation, ballots)
       IN  /\ ReachedQuota(sc, quota) = <<>>
           /\ scores' = sc
    /\ DefaultCondition(Cardinality(DOMAIN allocation), ToElect)
    /\ no_defaulting
    /\ pc' = "error"
    /\ err' = UnfilledSeatsError(elected, ToElect)
    /\ UNCHANGED <<Inputs, ballots, valid_ballots, spoiled, quota, allocation,
                   elected, round, reached_quota, output, run, first>>

(* lines 182, 189-191, 206 *)
ElectByDefault ==
    /\ InRound
    /\ DOMAIN allocation # {}
    /\ LET sc == Scores(allocation, ballots)
       IN  /\ ReachedQuota(sc, quota) = <<>>
           /\ scores' = sc
    /\ DefaultCondition(Cardinality(DOMAIN allocation), ToElect)
    /\ ~no_defaulting
    /\ elected' = elected \o Keys(allocation)
    /\ output' = output \o Events("ElectedByDefault", Keys(allocation))
    /\ round' = round + 1
    /\ UNCHANGED <<Inputs, ballots, valid_ballots, spoiled, quota, allocation,
                   reached_quota, pc, err, run, first>>

(* lines 193-198 *)
EliminatingTieError ==
    /\ InRound
    /\ DOMAIN allocation # {}
    /\ LET sc == Scores(allocation, ballots)
           lowest_scoring == LowestScoring(sc)
       IN  /\ ReachedQuota(sc, quota) = <<>>
           /\ ~DefaultCondition(Cardinality(DOMAIN allocation), ToElect)
           /\ Len(lowest_scoring) > 1
           /\ "None" \in break_tie(tie_strategy, lowest_scoring)
           /\ scores' = sc
           /\ output' = Append(output, Event("Tie", lowest_scoring))
           /\ err' = UnbreakableTieError(elected, lowest_scoring, FALSE)
    /\ pc' = "error"
    /\ UNCHANGED <<Inputs, ballots, valid_ballots, spoiled, quota, allocation,
                   elected, round, reached_quota, run, first>>

(* lines 193-206 *)
Eliminate ==
    /\ InRound
    /\ DOMAIN allocation # {}
    /\ LET sc == Scores(allocation, ballots)
           lowest_scoring == LowestScoring(sc)
       IN  /\ ReachedQuota(sc, quota) = <<>>
           /\ ~DefaultCondition(Cardinality(DOMAIN allocation), ToElect)
           /\ scores' = sc
           /\ \E eliminated \in
                  IF Len(lowest_scoring) > 1
                  THEN break_tie(tie_strategy, lowest_scoring) \ {"None"}
                  ELSE {lowest_scoring[1]} :
                LET st == Redistribute(allocation[eliminated],
                              [ballots |-> ballots,
                               allocation |-> Remove(allocation, eliminated)])
                IN  /\ ballots' = st.ballots
                    /\ allocation' = st.allocation
                    /\ output' = output
                         \o (IF Len(lowest_scoring) > 1
                             THEN <<Event("Tie", lowest_scoring)>> ELSE <<>>)
                         \o <<Event("Eliminated", <<eliminated>>)>>
    /\ round' = round + 1
    /\ UNCHANGED <<Inputs, valid_ballots, spoiled, quota, elected,
                   reached_quota, pc, err, run, first>>

(* calculate is called a second time with the same arguments: the same     *)
(* seats and candidates and the same Ballot objects (lines 133-145).       *)
Rerun ==
    /\ pc = "done"
    /\ run = 1
    /\ Prologue(seats, ballots, no_defaulting, tie_strategy)

Rounds ==
    \/ Return
    \/ RaiseNoCandidates
    \/ ElectingTieError
    \/ BeginElect
    \/ ElectOne
    \/ NoDefaultingError
    \/ ElectByDefault
    \/ EliminatingTieError
    \/ Eliminate
    \/ Rerun

Next == Call \/ Rounds

Spec == Init /\ [][Next]_vars

(* calculate runs to its return or to its raise: it is a sequential        *)
(* function, and no step of it is postponed forever.                       *)
LiveNext == LiveCall \/ Rounds

LiveSpec == Init /\ [][LiveNext]_vars /\ WF_vars(LiveNext)

TieNext == TieCall \/ Rounds

TieSpec == Init /\ [][TieNext]_vars

TypeOK ==
    /\ seats \in 0..MaxSeats
    /\ pc \in {"idle", "loop", "elect", "done", "error"}
    /\ DOMAIN allocation \subseteq CandSet
    /\ round \in 1..MaxRounds
    /\ run \in 0..2

(***************************************************************************)
(* Quantities the properties below are stated with.                        *)
(***************************************************************************)
RECURSIVE SumScores(_, _, _)
SumScores(cs, alloc, bl) ==
    IF cs = <<>> THEN FInt(0)
    ELSE FAdd[calc_score(alloc[Head(cs)], bl), SumScores(Tail(cs), alloc, bl)]

(* the sum of the values of all ballots that are in a bucket *)
Credited == SumScores(Keys(allocation), allocation, ballots)

(* the number of candidates elected by reaching quota in this call *)
ElectedByQuota ==
    Cardinality({i \in 1..Len(output) : output[i].ev = "Elected"})

Happened(ev) == \E i \in 1..Len(output) : output[i].ev = ev

Terminated == pc \in {"done", "error"}

Running == pc \in {"loop", "elect"}

AtRoundStart == pc = "loop" /\ Len(elected) < seats

CurrentScore(c) == calc_score(allocation[c], ballots)

NobodyReachedQuota ==
    \A c \in DOMAIN allocation : FLt(CurrentScore(c), FInt(quota))

Credit(i) == {c \in DOMAIN allocation : i \in Range(allocation[c])}

NoRepeat(ch) == \A i, j \in 1..Len(ch) : i # j => ch[i] # ch[j]

WellFormed == {i \in 1..Len(ballots) :
                  ballots[i].choices # <<>> /\ NoRepeat(ballots[i].choices)}

AfterPrologue == pc = "loop" /\ round = 1

(***************************************************************************)
(* C1.  The elected list never holds more than `seats` entries, and when   *)
(* calculate returns it holds exactly `seats` entries.                     *)
(***************************************************************************)
C1_SeatsFilled ==
    /\ Len(elected) <= seats
    /\ pc = "done" => Len(elected) = seats

C1_Witness ==
    /\ pc = "done"
    /\ seats >= 2
    /\ Happened("Elected")
    /\ Happened("ElectedByDefault")
    /\ Happened("Eliminated")

(***************************************************************************)
(* C2.  Conservation: at every round boundary the credited weight plus     *)
(* quota times the number of candidates elected by quota is at most the    *)
(* number of valid ballots.  The code multiplies a winner's ballots by     *)
(* surplus/quota, so a winner with score s passes on s*(s-quota)/quota,    *)
(* which is more than its surplus whenever s > quota.                      *)
(***************************************************************************)
C2_Conservation ==
    pc = "loop" =>
        FLe(FAdd[Credited, FInt(quota * ElectedByQuota)],
            FInt(Len(valid_ballots)))

(***************************************************************************)
(* C3.  Monotonicity: every completed round ends with a strict subset of   *)
(* the candidates that remained when it started (the keys of the score     *)
(* snapshot), and calculate runs at most |candidates| rounds.  A round     *)
(* that elects by default removes nobody.                                  *)
(***************************************************************************)
C3_Monotonic ==
    /\ [][(round' = round + 1 /\ run' = run) =>
            (/\ DOMAIN allocation' \subseteq DOMAIN scores'
             /\ DOMAIN allocation' # DOMAIN scores')]_vars
    /\ [](round - 1 <= Len(candidates))

(***************************************************************************)
(* C4.  A round that elects by default elects every remaining candidate    *)
(* and leaves the allocation empty.  The code appends the keys of the      *)
(* allocation to elected and leaves the allocation as it is.               *)
(***************************************************************************)
C4_DefaultEmpties ==
    [][(/\ AtRoundStart
        /\ DOMAIN allocation # {}
        /\ NobodyReachedQuota
        /\ Cardinality(DOMAIN allocation) <= ToElect
        /\ ~no_defaulting)
       => (/\ elected' = elected \o Keys(allocation)
           /\ DOMAIN allocation' = {})]_vars

(***************************************************************************)
(* C5.  Termination: every call of calculate returns or raises, and every  *)
(* completed round has elected a candidate or removed one from the         *)
(* allocation.                                                             *)
(***************************************************************************)
C5_Terminates ==
    /\ Running ~> Terminated
    /\ [][(round' = round + 1 /\ run' = run) =>
            \/ Len(elected') > Len(elected)
            \/ Cardinality(DOMAIN allocation') < Cardinality(DOMAIN allocation)
         ]_vars

C5_Witness ==
    /\ pc = "done"
    /\ tie_strategy = "FIRST_IN_ORDER"
    /\ round >= 4
    /\ Happened("Eliminated")

(***************************************************************************)
(* C6.  UnfilledSeatsError is raised exactly when, at the start of a       *)
(* round, (a) no candidate remains, or (b) nobody reached quota, no more   *)
(* candidates remain than seats are open and no_defaulting is set; it      *)
(* carries seats - len(elected) and the elected list.  With no_defaulting  *)
(* every candidate is elected with a score of at least quota.              *)
(***************************************************************************)
C6_UnfilledSeats ==
    [][/\ AtRoundStart =>
            /\ (pc' = "error" /\ err'.kind = "UnfilledSeats")
                 <=> \/ DOMAIN allocation = {}
                     \/ /\ NobodyReachedQuota
                        /\ Cardinality(DOMAIN allocation) <= ToElect
                        /\ no_defaulting
            /\ err'.kind = "UnfilledSeats" =>
                 /\ err'.unfilled = seats - Len(elected)
                 /\ err'.elected = elected
                 /\ elected' = elected
       /\ (err'.kind = "UnfilledSeats" /\ err.kind # "UnfilledSeats")
             => AtRoundStart
       /\ (no_defaulting /\ Len(elected') > Len(elected)) =>
             /\ Len(elected') = Len(elected) + 1
             /\ elected'[Len(elected')] \in DOMAIN allocation
             /\ FGe[CurrentScore(elected'[Len(elected')]), FInt(quota)]
      ]_vars

C6_Witness ==
    /\ pc = "error"
    /\ err.kind = "UnfilledSeats"
    /\ no_defaulting
    /\ DOMAIN allocation # {}
    /\ err.elected # <<>>
    /\ err.unfilled >= 1

(***************************************************************************)
(* C7.  In a round where nobody reached quota and more candidates remain   *)
(* than seats are open: with two or more candidates at the minimum score   *)
(* and the strategy NONE, an eliminating UnbreakableTieError is raised     *)
(* whose tied list is exactly the candidates at the minimum and whose      *)
(* elected list is the elected list so far; with one candidate at the      *)
(* minimum, that candidate is eliminated and break_tie is not called.      *)
(***************************************************************************)
AtMinimum ==
    {c \in DOMAIN allocation :
        \A d \in DOMAIN allocation : FLe(CurrentScore(c), CurrentScore(d))}

EliminationRound ==
    /\ AtRoundStart
    /\ NobodyReachedQuota
    /\ Cardinality(DOMAIN allocation) > ToElect

C7_EliminatingTie ==
    [][/\ (EliminationRound /\ Cardinality(AtMinimum) >= 2
                            /\ tie_strategy = "NONE") =>
            /\ pc' = "error"
            /\ err'.kind = "UnbreakableTie"
            /\ ~err'.electing
            /\ Range(err'.tied) = AtMinimum
            /\ Len(err'.tied) = Cardinality(AtMinimum)
            /\ err'.elected = elected
       /\ (EliminationRound /\ Cardinality(AtMinimum) = 1) =>
            /\ pc' = "loop"
            /\ DOMAIN allocation' = DOMAIN allocation \ AtMinimum
            /\ elected' = elected
            /\ \E c \in AtMinimum :
                  output' = Append(output, Event("Eliminated", <<c>>))
      ]_vars

C7_Witness ==
    /\ pc = "error"
    /\ err.kind = "UnbreakableTie"
    /\ ~err.electing
    /\ Len(err.tied) = 2
    /\ Happened("Eliminated")

(***************************************************************************)
(* C8.  Idempotence: a second call of calculate with the same seats,       *)
(* candidates and Ballot objects returns the quota and the elected list    *)
(* of the first call.  The first call pops choices from the ballots and    *)
(* scales their values, so the second call counts different ballots.       *)
(***************************************************************************)
C8_Idempotent ==
    (pc = "done" /\ run = 2 /\ tie_strategy # "RANDOM") =>
        /\ quota = first.quota
        /\ elected = first.elected

(***************************************************************************)
(* C9.  A ballot is valid iff its choices are non-empty and without a      *)
(* repeated candidate; the valid ballots are the ones the quota is         *)
(* computed from, the spoiled count is the number of the others, and no    *)
(* ballot that is not valid is ever in a bucket of the allocation.         *)
(***************************************************************************)
C9_SpoiledExcluded ==
    /\ AfterPrologue =>
          /\ Range(valid_ballots) = WellFormed
          /\ Len(valid_ballots) = Cardinality(WellFormed)
          /\ spoiled = Len(ballots) - Cardinality(WellFormed)
          /\ quota = (Cardinality(WellFormed) \div (seats + 1)) + 1
    /\ \A i \in 1..Len(ballots) :
          Credit(i) # {} =>
             /\ i \in Range(valid_ballots)
             /\ ballots[i].choices # <<>>
             /\ NoRepeat(ballots[i].choices)

C9_Witness ==
    /\ round >= 2
    /\ spoiled >= 1
    /\ \E i \in 1..Len(ballots) :
          ~NoRepeat(ballots[i].choices) /\ i \notin Range(valid_ballots)
    /\ \E i \in 1..Len(ballots) : Credit(i) # {}

(***************************************************************************)
(* C10.  The quota is floor(V / (S + 1)) + 1 for the V valid ballots and   *)
(* the S seats, is fixed before the first round, and every election by     *)
(* quota tests the score against that value and scales the winner's        *)
(* ballots by (score - quota) / quota with that value.                     *)
(***************************************************************************)
C10_Quota ==
    /\ [](AfterPrologue => Len(valid_ballots) = Cardinality(WellFormed))
    /\ [](pc # "idle" => quota = (Len(valid_ballots) \div (seats + 1)) + 1)
    /\ [][(run' = run) =>
            /\ quota' = quota
            /\ valid_ballots' = valid_ballots
            /\ (pc = "elect" /\ pc' # "error") =>
                 LET c == Head(reached_quota)
                     q == (Len(valid_ballots) \div (seats + 1)) + 1
                     surplus == FSub[scores[c], FInt(q)]
                 IN  /\ FGe[scores[c], FInt(q)]
                     /\ \A b \in Range(allocation[c]) :
                          IF surplus = FInt(0)
                          THEN ballots'[b] = ballots[b]
                          ELSE FMul[ballots'[b].value, FInt(q)]
                                 = FMul[ballots[b].value, surplus]
         ]_vars

C10_Witness ==
    /\ round >= 2
    /\ quota >= 2
    /\ ElectedByQuota >= 1
    /\ \E i \in 1..Len(ballots) :
          ballots[i].value # FInt(1) /\ Credit(i) # {}

(***************************************************************************)
(* C11.  Droop bound: for V valid ballots and S >= 1 seats the quota       *)
(* satisfies quota * (S + 1) > V and quota * (S + 1) - (S + 1) < V.        *)
(* The second inequality is not strict: when S + 1 divides V (V = 0        *)
(* included) the two sides are equal.                                      *)
(***************************************************************************)
C11_DroopStrict ==
    pc # "idle" =>
        /\ quota * (seats + 1) > Len(valid_ballots)
        /\ quota * (seats + 1) - (seats + 1) < Len(valid_ballots)

(* C11 as amended: quota * (S + 1) > V and quota * (S + 1) - (S + 1) <= V *)
C11_Droop ==
    pc # "idle" =>
        /\ quota * (seats + 1) > Len(valid_ballots)
        /\ quota * (seats + 1) - (seats + 1) <= Len(valid_ballots)

C11_Witness ==
    /\ pc # "idle"
    /\ Len(valid_ballots) > 0
    /\ Len(valid_ballots) % (seats + 1) = 0
    /\ quota * (seats + 1) - (seats + 1) = Len(valid_ballots)

(***************************************************************************)
(* C12.  Decision priority: a round that starts with a remaining candidate *)
(* at or above quota elects by quota or raises an electing tie, also when  *)
(* no more candidates remain than seats are open; when no more candidates  *)
(* are at or above quota than seats are open, break_tie is not called and  *)
(* all of them are elected in that round, one per iteration.               *)
(***************************************************************************)
AtQuota ==
    {c \in DOMAIN allocation : FGe[CurrentScore(c), FInt(quota)]}

C12_QuotaFirst ==
    [][/\ (AtRoundStart /\ AtQuota # {}) =>
            /\ \/ pc' = "elect"
               \/ pc' = "error" /\ err'.kind = "UnbreakableTie"
                                /\ err'.electing
            /\ elected' = elected
            /\ allocation' = allocation
            /\ round' = round
            /\ Cardinality(AtQuota) <= ToElect =>
                  /\ pc' = "elect"
                  /\ output' = output
                  /\ Range(reached_quota') = AtQuota
                  /\ Len(reached_quota') = Cardinality(AtQuota)
       /\ pc = "elect" =>
            /\ elected' = Append(elected, Head(reached_quota))
            /\ Head(reached_quota) \notin DOMAIN allocation'
            /\ reached_quota' = Tail(reached_quota)
            /\ output' = Append(output,
                                Event("Elected", <<Head(reached_quota)>>))
            /\ IF Tail(reached_quota) = <<>>
               THEN pc' = "loop" /\ round' = round + 1
               ELSE pc' = "elect" /\ round' = round
      ]_vars

(* two candidates were elected by quota in one round although no more     *)
(* candidates remained than seats were open                                *)
C12_Witness ==
    /\ pc = "loop"
    /\ round = 2
    /\ Len(elected) = 2
    /\ ElectedByQuota = 2
    /\ seats >= 3
    /\ ~Happened("Tie")

(***************************************************************************)
(* C13.  When more candidates are at or above quota than seats are open    *)
(* and the tie policy resolves, the round elects exactly `open` of them,   *)
(* and none of those has a lower score than one that is left out.          *)
(***************************************************************************)
C13_TieElectsBest ==
    [][(AtRoundStart /\ Cardinality(AtQuota) > ToElect /\ pc' = "elect") =>
          /\ Len(reached_quota') = ToElect
          /\ Range(reached_quota') \subseteq AtQuota
          /\ \A c \in Range(reached_quota') :
                \A d \in AtQuota \ Range(reached_quota') :
                   FGe[CurrentScore(c), CurrentScore(d)]
      ]_vars

(***************************************************************************)
(* C14.  The set handed to the tie policy, and reported as tied by an      *)
(* electing-tie error, holds only the candidates whose score equals the    *)
(* score at rank `open`; the electing-tie error is not raised when the     *)
(* scores at ranks `open` and `open + 1` differ.                           *)
(***************************************************************************)
Above(c) == {d \in AtQuota : FLt(CurrentScore(c), CurrentScore(d))}

NotBelow(c) == {d \in AtQuota : FGe[CurrentScore(d), CurrentScore(c)]}

(* the candidates whose score is the score at rank ToElect *)
Boundary ==
    {c \in AtQuota : /\ Cardinality(Above(c)) < ToElect
                     /\ Cardinality(NotBelow(c)) >= ToElect}

C14_TieIsBoundary ==
    [][(AtRoundStart /\ Cardinality(AtQuota) > ToElect) =>
          /\ output' # output =>
                Range(output'[Len(output')].who) = Boundary
          /\ pc' = "error" =>
                /\ Range(err'.tied) = Boundary
                /\ Cardinality(Boundary) > 1
      ]_vars

(***************************************************************************)
(* C15.  The candidates a round elects by quota are processed, and         *)
(* appended to the elected list, in descending order of the scores taken   *)
(* at the start of the round.                                              *)
(***************************************************************************)
C15_ElectOrder ==
    pc = "elect" =>
        \A i, j \in 1..Len(reached_quota) :
            i < j => FGe[scores[reached_quota[i]], scores[reached_quota[j]]]

(***************************************************************************)
(* C16.  Allocation invariant: at every round boundary every valid ballot  *)
(* that still lists a remaining candidate is credited to exactly one       *)
(* remaining candidate, the most preferred one it lists; no ballot is in   *)
(* two buckets, or twice in one, in any state.  The ballots of a candidate *)
(* elected with surplus 0 are deleted with the candidate (line 175)        *)
(* whatever they list next, so they are credited to no one.                *)
(***************************************************************************)
Occurrences(i) ==
    {<<c, k>> \in (DOMAIN allocation) \X (1..Len(ballots)) :
        k <= Len(allocation[c]) /\ allocation[c][k] = i}

InOneBucketAtMost ==
    \A i \in 1..Len(ballots) :
        /\ Cardinality(Occurrences(i)) <= 1
        /\ Credit(i) # {} => i \in Range(valid_ballots)

Preferred(i) == PopChoices(ballots[i].choices, DOMAIN allocation)

C16_ExactlyOne ==
    /\ InOneBucketAtMost
    /\ pc = "loop" =>
          \A i \in Range(valid_ballots) :
              Preferred(i) # <<>> => Credit(i) = {Head(Preferred(i))}

ElectedAtQuota(c) ==
    \E k \in 1..Len(output) : output[k] = Event("Elected", <<c>>)

(* C16 as amended: no ballot is ever in two buckets; at every round        *)
(* boundary a credited ballot is credited to the first candidate it lists, *)
(* which is remaining, and a valid ballot credited to no one either lists  *)
(* nothing any more or lists first a candidate that was elected by quota   *)
(* and is no longer remaining.                                             *)
C16_Allocation ==
    /\ InOneBucketAtMost
    /\ pc = "loop" =>
          \A i \in Range(valid_ballots) :
              IF Credit(i) # {}
              THEN /\ ballots[i].choices # <<>>
                   /\ Credit(i) = {Head(ballots[i].choices)}
              ELSE \/ ballots[i].choices = <<>>
                   \/ /\ Head(ballots[i].choices) \notin DOMAIN allocation
                      /\ ElectedAtQuota(Head(ballots[i].choices))

(* after an election at exactly the quota and an elimination: one ballot   *)
(* deleted with the winner while it lists another remaining candidate, and *)
(* one ballot credited                                                     *)
C16_Witness ==
    /\ pc = "loop"
    /\ Happened("Eliminated")
    /\ \E i \in Range(valid_ballots) : Credit(i) = {} /\ Preferred(i) # <<>>
    /\ \E i \in Range(valid_ballots) : Credit(i) # {}

(***************************************************************************)
(* C17.  An elimination changes no ballot's weight.  Each ballot of the    *)
(* eliminated candidate is re-credited to the first of its later           *)
(* preferences that is remaining, or is dropped with its list emptied when *)
(* none is; the other ballots and their places are untouched, no other     *)
(* candidate's score decreases, and the credited weight decreases by the   *)
(* weights of the dropped ballots exactly.                                 *)
(***************************************************************************)
IsSuffix(t, s) ==
    /\ Len(t) <= Len(s)
    /\ \A k \in 1..Len(t) : t[k] = s[Len(s) - Len(t) + k]

IsPrefix(t, s) ==
    /\ Len(t) <= Len(s)
    /\ \A k \in 1..Len(t) : t[k] = s[k]

Skipped(i, t) ==
    {ballots[i].choices[k] : k \in 1..(Len(ballots[i].choices) - Len(t))}

C17_Elimination ==
    [][(AtRoundStart /\ output' # output
           /\ output'[Len(output')].ev = "Eliminated") =>
          LET e == output'[Len(output')].who[1]
              dropped == {i \in Range(allocation[e]) :
                             ballots'[i].choices = <<>>}
          IN  /\ e \in DOMAIN allocation
              /\ DOMAIN allocation' = DOMAIN allocation \ {e}
              /\ \A i \in 1..Len(ballots) :
                    ballots'[i].value = ballots[i].value
              /\ \A i \in Range(allocation[e]) :
                    /\ IsSuffix(ballots'[i].choices, ballots[i].choices)
                    /\ Skipped(i, ballots'[i].choices)
                          \cap DOMAIN allocation' = {}
                    /\ Credit(i)' =
                          IF i \in dropped THEN {}
                          ELSE {Head(ballots'[i].choices)}
              /\ \A i \in (1..Len(ballots)) \ Range(allocation[e]) :
                    /\ ballots'[i] = ballots[i]
                    /\ Credit(i)' = Credit(i)
              /\ \A c \in DOMAIN allocation' :
                    /\ IsPrefix(allocation[c], allocation'[c])
                    /\ FGe[CurrentScore(c)', CurrentScore(c)]
              /\ Credited' =
                    FSub[Credited,
                         calc_score(Filter(allocation[e], dropped), ballots)]
      ]_vars

(* eliminations only: one ballot was dropped with its list emptied and     *)
(* another was appended to the bucket of its next remaining preference     *)
C17_Witness ==
    /\ pc = "loop"
    /\ ~Happened("Elected")
    /\ output # <<>>
    /\ output[Len(output)].ev = "Eliminated"
    /\ \E i \in Range(valid_ballots) : ballots[i].choices = <<>>
    /\ \E c \in DOMAIN allocation :
          \E k \in 1..(Len(allocation[c]) - 1) :
             allocation[c][k] > allocation[c][k + 1]

(***************************************************************************)
(* C18.  When a candidate is elected by quota, the score its surplus is    *)
(* computed from is the sum of the weights of the ballots credited to it   *)
(* at that moment.  The code uses the scores taken at the start of the     *)
(* round, which leave out the ballots an earlier winner of the same round  *)
(* has passed on.                                                          *)
(***************************************************************************)
C18_SurplusScore ==
    (pc = "elect" /\ reached_quota # <<>>) =>
        scores[Head(reached_quota)] = CurrentScore(Head(reached_quota))

(***************************************************************************)
(* C19.  The elected list holds no candidate twice, and no candidate is    *)
(* eliminated after it was elected.  A default round leaves the candidates *)
(* it elects in the allocation, where later rounds elect or eliminate them *)
(* again.                                                                  *)
(***************************************************************************)
C19_ElectedOnce ==
    /\ NoRepeat(elected)
    /\ err.kind # "none" => NoRepeat(err.elected)
    /\ \A k \in 1..Len(output) :
          output[k].ev = "Eliminated" =>
             \A j \in 1..(k - 1) :
                output[j].ev \in {"Elected", "ElectedByDefault"} =>
                   output[j].who # output[k].who

(***************************************************************************)
(* C20.  A round that raises changes nothing: the allocation, the ballots  *)
(* and the elected list are as they were when the round started, and the   *)
(* error carries the candidates elected in the completed rounds, in order. *)
(***************************************************************************)
RECURSIVE ElectedSoFar(_)
ElectedSoFar(out) ==
    IF out = <<>> THEN <<>>
    ELSE IF Head(out).ev \in {"Elected", "ElectedByDefault"}
         THEN Head(out).who \o ElectedSoFar(Tail(out))
         ELSE ElectedSoFar(Tail(out))

C20_FailingRound ==
    [][(pc' = "error" /\ pc # "error") =>
          /\ AtRoundStart
          /\ err'.kind \in {"UnbreakableTie", "UnfilledSeats"}
          /\ allocation' = allocation
          /\ ballots' = ballots
          /\ elected' = elected
          /\ round' = round
          /\ err'.elected = elected
          /\ err'.elected = ElectedSoFar(output)
      ]_vars

(* an electing tie raised after a round that elected someone *)
C20_Witness ==
    /\ pc = "error"
    /\ err.kind = "UnbreakableTie"
    /\ err.electing
    /\ err.elected # <<>>
    /\ round >= 2
====
